---- MODULE Spec2Model ----
(***************************************************************************)
(* Session registry of slimductor (src/registry.py): a directory of        *)
(* per-session JSON record files, written by register, removed by          *)
(* deregister, and read and lazily cleaned by active_sessions (list and    *)
(* check).  Time is counted in whole hours since the epoch (UTC).          *)
(*                                                                         *)
(* Specifications:                                                         *)
(*   Spec         the commands of registry.py, each as one step;           *)
(*   SpecAlive    is_alive by itself;                                      *)
(*   SpecWalk     get_tracking_pid by itself, one pass of its loop a step; *)
(*   SpecRace     active_sessions one file operation at a time, among the  *)
(*                register and deregister calls of other processes;        *)
(*   SpecInstall  the installer (src/install.py).                          *)
(***************************************************************************)
EXTENDS Integers, Sequences, FiniteSets, TLC

\* ------------------------------------------------------------------ bounds
\* The clock is advanced at most MaxTicks times.
MaxTicks == 2
\* At most MaxOps command invocations happen in one behaviour.
MaxOps == 2

\* ------------------------------------------------------- program constants
STALE_HOURS == 4
\* The clock advances in steps just short of the staleness threshold, so that a
\* record is seen fresh (0 and 3 hours old) and stale (6 hours and older).
TickHours == STALE_HOURS - 1
WalkCap == 15
_CLAUDE_EXES == {"claude.exe", "claude"}
_SKIP_EXES == {"py.exe", "python.exe", "python3", "python", "bash.exe", "bash", "sh.exe", "sh"}
DefaultRole == "orchestrator"

\* ------------------------------------------------------------- environment
\* The value of an environment variable that is not set.
NoSid == "<unset>"
\* A role argument that is not given on the command line.
NoArg == "<none>"
Roles == {"orchestrator", "worker"}
\* Local timezone offsets (hours east of UTC) of the machine running a command.
TZOffsets == {-5, 0, 5}

\* Two sessions of the host application:
\*   A  POSIX, CLAUDE_SESSION_ID = "S1", hooks are children of host process 40;
\*   B  Windows, no session id, hooks run below the launcher 30 (py.exe),
\*      which has no parent in the snapshot.
Sessions == {"A", "B"}
Platform(s) == IF s = "B" THEN "win32" ELSE "posix"
EnvSid(s) == IF s = "A" THEN "S1" ELSE NoSid
Cwd(s) == IF s = "A" THEN "/a" ELSE "/b"
Ppid(s) == IF s = "A" THEN 40 ELSE 30
\* Process ids a hook invocation (the process running registry.py) can get.
HookPids == {7, 8}
\* The long-lived processes of the machine that belong to the user.
HostPids == {30, 40}
\* The process snapshot a hook of session s with process id h sees.
PidMap(s, h) == IF s = "B" THEN (h :> 30) @@ (30 :> 0) ELSE (h :> Ppid(s))
NameMap(s, h) == IF s = "B" THEN (h :> "python.exe") @@ (30 :> "py.exe")
                 ELSE (h :> "python3")

\* A file of the directory that no session key names.
ForeignKey == "x"

VARIABLES
    dirExists,  \* ACTIVE_DIR exists
    files,      \* ACTIVE_DIR/*.json: file name (without .json) -> content
    alive,      \* the host processes that are running
    now,        \* time.time(), in hours
    nops,       \* command invocations so far
    last,       \* the last command invocation: inputs, result, output, exit
    px,         \* a call of is_alive or get_tracking_pid: inputs, loop state, result
    inst,       \* the installer's view: ~/.claude, settings.json, backups, output
    en          \* an enumeration in progress, one file operation at a time

vars == <<dirExists, files, alive, now, nops, last, px, inst, en>>
\* What the commands of the registry leave alone.
NoCall == [fn |-> "none"]
NoInstall == [run |-> "none"]
NoEnum == [pc |-> "none"]

\* ---------------------------------------------------------------- helpers
Get(m, k, d) == IF k \in DOMAIN m THEN m[k] ELSE d
NoFiles == [k \in {} |-> 0]
Remove(fs, k) == [x \in (DOMAIN fs) \ {k} |-> fs[x]]
Put(fs, k, c) == [x \in (DOMAIN fs) \cup {k} |-> IF x = k THEN c ELSE fs[x]]
\* The orders in which the directory can list its files.
Perms(S) == {sq \in [1..Cardinality(S) -> S] : \A i, j \in 1..Cardinality(S) : sq[i] = sq[j] => i = j}

\* ------------------------------------------------------------------- time
\* time.strftime("%Y-%m-%dT%H:%M:%SZ", time.gmtime()): the UTC wall-clock
\* reading of the epoch time t, as a timestamp string.
FormatUtc(t) == [fmt |-> "iso", wall |-> t]
\* time.mktime(time.strptime(started, ...)): strptime yields the wall-clock
\* reading written in the string, and mktime takes a reading of the LOCAL clock
\* (tz hours east of UTC) back to epoch time.
MkTimeLocal(started, tz) == started.wall - tz
\* A timestamp string strptime cannot parse, and the empty string.
BadStamp == [fmt |-> "bad", wall |-> 0]
EmptyStamp == [fmt |-> "empty", wall |-> 0]

\* ------------------------------------------------------------ liveness
\* What probing process id pid answers (os.kill(pid, 0) or OpenProcess), from
\* a process whose own id is self: "ok", "denied" (the process exists and
\* belongs to someone else: process 1) or "nosuch".
Probe(pid, self, running) ==
    IF pid = self \/ pid \in running THEN "ok"
    ELSE IF pid = 1 THEN "denied"
    ELSE "nosuch"

\* is_alive without the probe: every positive id counts as alive.
is_alive_positive(pid, self, running) == pid > 0

is_alive(pid, self, running) ==
    IF pid <= 0 THEN FALSE
    ELSE Probe(pid, self, running) = "ok"

\* ------------------------------------------------- tracking pid, session key
\* The immediate-parent rule: the parent id if it is above 1, else the own id.
ParentRule(pid, ppid) == IF ppid > 1 THEN ppid ELSE pid

\* The loop of get_tracking_pid with n hops left, at process cur.
RECURSIVE Walk(_, _, _, _, _, _, _)
Walk(cur, last_alive, n, pid_map, name_map, self, running) ==
    IF n = 0 THEN last_alive
    ELSE LET parent == Get(pid_map, cur, 0) IN
         IF parent <= 1 \/ parent = cur THEN last_alive
         ELSE LET pname == Get(name_map, parent, "") IN
              IF pname \in _CLAUDE_EXES THEN parent
              ELSE IF is_alive(parent, self, running)
                   THEN IF pname \notin _SKIP_EXES THEN parent
                        ELSE Walk(parent, parent, n - 1, pid_map, name_map, self, running)
                   ELSE Walk(parent, last_alive, n - 1, pid_map, name_map, self, running)

\* snapfails: taking the process snapshot raises, and the parent rule is used.
get_tracking_pid(platform, pid, ppid, pid_map, name_map, running, snapfails) ==
    IF platform # "win32" THEN ParentRule(pid, ppid)
    ELSE IF snapfails THEN ParentRule(pid, ppid)
    ELSE Walk(pid, pid, WalkCap, pid_map, name_map, pid, running)

\* A hook of session s can run: on POSIX a hook is a child of the host
\* process, which is running (an orphan would have been given another parent);
\* on Windows the parent ids of the snapshot outlive the processes they name.
CanRun(s, running) == Platform(s) = "posix" => Ppid(s) \in running

\* The tracking pid of a hook of session s running as process h.
TrackingPid(s, h, running, snapfails) ==
    get_tracking_pid(Platform(s), h, Ppid(s), PidMap(s, h), NameMap(s, h), running, snapfails)

\* session_file(): the name of the record file, without directory and suffix.
session_file(sid, tracking_pid) ==
    IF sid # NoSid /\ sid # "" THEN sid ELSE "pid-" \o ToString(tracking_pid)

\* ------------------------------------------------------------ file contents
\* json.dumps of a record, and the contents json.loads does not turn into one.
\* by: the session whose register wrote the file ("" for any other writer); it
\* is bookkeeping of the model, not part of what the file holds.
Dumps(obj, by) == [kind |-> "object", data |-> obj, by |-> by]
Garbage == [kind |-> "garbage", data |-> NoFiles, by |-> ""]
NonObject == [kind |-> "nonobject", data |-> NoFiles, by |-> ""]

\* The record register writes.
NewRecord(tracking_pid, t, sid, cwd, role) ==
    [pid |-> tracking_pid,
     startedAt |-> FormatUtc(t),
     sessionId |-> IF sid = NoSid THEN "unknown" ELSE sid,
     cwd |-> cwd,
     role |-> role]

\* -------------------------------------------------- register, deregister
\* register without its existence test: the record is written in any case.
register_overwrite(fs, key, tracking_pid, t, sid, cwd, role, by) ==
    Put(fs, key, Dumps(NewRecord(tracking_pid, t, sid, cwd, role), by))

\* register(role) after mkdir: the files of the directory afterwards.
register(fs, key, tracking_pid, t, sid, cwd, role, by) ==
    IF key \in DOMAIN fs THEN fs
    ELSE Put(fs, key, Dumps(NewRecord(tracking_pid, t, sid, cwd, role), by))

\* deregister that leaves the file in place.
deregister_keep(fs, key) == fs

\* deregister that empties the directory.
deregister_all(fs, key) == NoFiles

deregister(fs, key) == Remove(fs, key)

\* ------------------------------------------------------------ enumeration
\* The loop body with a handler that removes what it cannot read.
Verdict_evictCorrupt(content, self, running, t, tz) ==
    IF content.kind # "object" THEN "unlink"
    ELSE LET data == content.data
             started == Get(data, "startedAt", EmptyStamp)
         IN IF started.fmt = "bad" THEN "unlink"
            ELSE LET age_hours == IF started.fmt = "iso" THEN t - MkTimeLocal(started, tz) ELSE 0
                 IN IF is_alive(Get(data, "pid", 0), self, running) /\ age_hours < STALE_HOURS
                    THEN "append"
                    ELSE "unlink"

\* The body of the loop of active_sessions for one file: "append", "unlink"
\* or "skip" (an exception, caught by the loop).
Verdict(content, self, running, t, tz) ==
    IF content.kind # "object" THEN "skip"
    ELSE LET data == content.data
             started == Get(data, "startedAt", EmptyStamp)
         IN IF started.fmt = "bad" THEN "skip"
            ELSE LET age_hours == IF started.fmt = "iso" THEN t - MkTimeLocal(started, tz) ELSE 0
                 IN IF is_alive(Get(data, "pid", 0), self, running) /\ age_hours < STALE_HOURS
                    THEN "append"
                    ELSE "unlink"

\* active_sessions() over the files in glob order `order`, from position i on.
RECURSIVE Enumerate(_, _, _, _, _, _, _, _)
Enumerate(order, i, acc, fs0, self, running, t, tz) ==
    IF i > Len(order) THEN acc
    ELSE LET k == order[i]
             v == Verdict(fs0[k], self, running, t, tz)
             nxt == CASE v = "append" -> [acc EXCEPT !.sessions = Append(@, fs0[k].data),
                                                     !.srcs = Append(@, k)]
                      [] v = "unlink" -> [acc EXCEPT !.fs = Remove(@, k)]
                      [] OTHER -> acc
         IN Enumerate(order, i + 1, nxt, fs0, self, running, t, tz)

\* active_sessions that makes sure of its directory first, as register does.
active_sessions_mkdir(dir, fs, order, self, running, t, tz) ==
    Enumerate(order, 1, [dir |-> TRUE, fs |-> fs, sessions |-> <<>>, srcs |-> <<>>],
              fs, self, running, t, tz)

\* dir: the directory exists afterwards; fs: its files afterwards; sessions:
\* the list returned; srcs: the file each element of sessions was read from.
active_sessions(dir, fs, order, self, running, t, tz) ==
    IF ~dir THEN [dir |-> dir, fs |-> fs, sessions |-> <<>>, srcs |-> <<>>]
    ELSE Enumerate(order, 1, [dir |-> dir, fs |-> fs, sessions |-> <<>>, srcs |-> <<>>],
                   fs, self, running, t, tz)

\* ------------------------------------------------------- command dispatch
\* The role __main__ passes to register: it calls register() whatever
\* follows the command on the command line.
CliRole(arg) == DefaultRole

\* The exit status without the try/except: an exception ends the script.
ExitStatus_uncaught(raised) == IF raised THEN 1 ELSE 0

\* The exit status of the script when the command raised or not: the
\* try/except of __main__ discards every exception.
ExitStatus(raised) == 0

\* The lines check prints below its summary: one per session, up to the
\* first session that lacks a field it formats.
RECURSIVE CheckLines(_, _)
CheckLines(sessions, i) ==
    IF i > Len(sessions) THEN <<>>
    ELSE IF {"role", "pid", "cwd"} \subseteq DOMAIN sessions[i]
         THEN <<[role |-> sessions[i].role, pid |-> sessions[i].pid, cwd |-> sessions[i].cwd]>>
              \o CheckLines(sessions, i + 1)
         ELSE <<>>

\* The orchestrators check counts.
Orchestrators(sessions) ==
    {i \in 1..Len(sessions) : "role" \in DOMAIN sessions[i] /\ sessions[i].role = "orchestrator"}

\* The record of an invocation before anything ran.
Idle ==
    [cmd |-> "none", via |-> "cli", session |-> "", hook |-> 0, arg |-> NoArg,
     role |-> "", key |-> "", tpid |-> 0, tz |-> 0, fault |-> FALSE, dirBefore |-> FALSE,
     before |-> NoFiles, sessions |-> <<>>, srcs |-> <<>>, printed |-> FALSE,
     total |-> 0, orch |-> 0, lines |-> <<>>, raised |-> FALSE, exit |-> 0]

\* hook is kept for the enumerations, whose liveness test depends on it.
Begin(cmd, s, h, fault) ==
    [Idle EXCEPT !.cmd = cmd, !.session = s, !.fault = fault,
                 !.hook = IF cmd \in {"list", "check"} THEN h ELSE 0,
                 !.dirBefore = dirExists, !.before = files]

\* register(role) run by a hook of session s with process id h.  fault: the
\* mkdir raises an OSError.
Register(via, s, h, arg, role, fault, snapfails) ==
    LET tp == TrackingPid(s, h, alive, snapfails)
        key == session_file(EnvSid(s), tp)
    IN /\ nops < MaxOps
       /\ CanRun(s, alive)
       /\ nops' = nops + 1
       /\ dirExists' = (dirExists \/ ~fault)
       /\ files' = IF fault THEN files
                   ELSE register(files, key, tp, now, EnvSid(s), Cwd(s), role, s)
       /\ last' = [Begin("register", s, h, fault) EXCEPT
                      !.via = via, !.arg = arg, !.role = role,
                      !.key = IF fault THEN "" ELSE key,
                      !.tpid = IF fault THEN 0 ELSE tp,
                      !.raised = fault,
                      !.exit = IF via = "cli" THEN ExitStatus(fault) ELSE 0]
       /\ UNCHANGED <<alive, now, px, inst, en>>

\* registry.py register [arg], and registry.py without a command.
MainRegister ==
    \E s \in Sessions, h \in HookPids, arg \in {NoArg, "worker"}, fault \in BOOLEAN,
       snapfails \in BOOLEAN :
        /\ snapfails => Platform(s) = "win32" /\ ~fault
        /\ Register("cli", s, h, arg, CliRole(arg), fault, snapfails)

\* register(role) called as a function of the module.
CallRegister ==
    \E s \in Sessions, h \in HookPids, role \in Roles :
        Register("api", s, h, role, role, FALSE, FALSE)

\* registry.py deregister.  fault: the unlink raises an OSError other than
\* "no such file".
MainDeregister ==
    \E s \in Sessions, h \in HookPids, fault \in BOOLEAN, snapfails \in BOOLEAN :
        LET tp == TrackingPid(s, h, alive, snapfails)
            key == session_file(EnvSid(s), tp)
        IN /\ snapfails => Platform(s) = "win32" /\ ~fault
           /\ nops < MaxOps
           /\ CanRun(s, alive)
           /\ nops' = nops + 1
           /\ files' = IF fault THEN files ELSE deregister(files, key)
           /\ last' = [Begin("deregister", s, h, fault) EXCEPT
                          !.key = key, !.tpid = tp,
                          !.raised = fault, !.exit = ExitStatus(fault)]
           /\ UNCHANGED <<dirExists, alive, now, px, inst, en>>

\* The enumeration of list and check by process h on a machine whose local
\* clock is tz hours east of UTC, the directory listing its files in `order`.
Listing(cmd, h, tz, order) ==
    LET r == active_sessions(dirExists, files, order, h, alive, now, tz)
        lines == CheckLines(r.sessions, 1)
        keyerror == cmd = "check" /\ Len(lines) < Len(r.sessions)
    IN /\ nops < MaxOps
       /\ nops' = nops + 1
       /\ dirExists' = r.dir
       /\ files' = r.fs
       /\ last' = [Begin(cmd, "", h, FALSE) EXCEPT
                      !.tz = tz, !.sessions = r.sessions, !.srcs = r.srcs,
                      !.printed = TRUE,
                      !.total = Len(r.sessions),
                      !.orch = Cardinality(Orchestrators(r.sessions)),
                      !.lines = IF cmd = "check" THEN lines ELSE <<>>,
                      !.raised = keyerror, !.exit = ExitStatus(keyerror)]
       /\ UNCHANGED <<alive, now, px, inst, en>>

\* list or check when reading the directory raises an OSError.
ListingFails(cmd, h) ==
    /\ nops < MaxOps
    /\ nops' = nops + 1
    /\ last' = [Begin(cmd, "", h, TRUE) EXCEPT !.raised = TRUE, !.exit = ExitStatus(TRUE)]
    /\ UNCHANGED <<dirExists, files, alive, now, px, inst, en>>

\* registry.py list.
MainList ==
    \E h \in HookPids :
        \/ \E tz \in TZOffsets, order \in Perms(DOMAIN files) : Listing("list", h, tz, order)
        \/ ListingFails("list", h)

\* registry.py check.
MainCheck ==
    \E h \in HookPids :
        \/ \E tz \in TZOffsets, order \in Perms(DOMAIN files) : Listing("check", h, tz, order)
        \/ ListingFails("check", h)

\* registry.py with a command it does not know.
MainUnknown ==
    /\ nops < MaxOps
    /\ nops' = nops + 1
    /\ last' = [Begin("unknown", "", 0, FALSE) EXCEPT !.exit = ExitStatus(FALSE)]
    /\ UNCHANGED <<dirExists, files, alive, now, px, inst, en>>

\* ------------------------------------------------------------ environment
\* Time passes.  Only differences of times matter, so the clock is started
\* by the first timestamp written.
Tick ==
    /\ nops < MaxOps
    /\ \E k \in DOMAIN files : files[k].kind = "object" /\ "startedAt" \in DOMAIN files[k].data
    /\ now < MaxTicks * TickHours
    /\ now' = now + TickHours
    /\ last' = Idle
    /\ UNCHANGED <<dirExists, files, alive, nops, px, inst, en>>

\* A host process terminates.
Kill ==
    \E p \in alive :
        /\ nops < MaxOps
        /\ alive' = alive \ {p}
        /\ last' = Idle
        /\ UNCHANGED <<dirExists, files, now, nops, px, inst, en>>

\* Contents of a file that register did not write: not JSON, JSON that is no
\* object, a record whose startedAt does not parse, a record without role and
\* startedAt.
ForeignContent(c) ==
    CASE c = "garbage" -> Garbage
      [] c = "nonobject" -> NonObject
      [] c = "badstamp" -> Dumps([pid |-> 40, startedAt |-> BadStamp, sessionId |-> "unknown",
                                  cwd |-> "/x", role |-> "worker"], "")
      [] OTHER -> Dumps([pid |-> 40, sessionId |-> "unknown", cwd |-> "/x"], "")

\* Something other than the registry leaves such a file in the directory.
ForeignWrite ==
    \E c \in {"garbage", "nonobject", "badstamp", "norole"} :
        /\ nops < MaxOps
        /\ dirExists
        /\ ForeignKey \notin DOMAIN files
        /\ files' = Put(files, ForeignKey, ForeignContent(c))
        /\ last' = Idle
        /\ UNCHANGED <<dirExists, alive, now, nops, px, inst, en>>

Init ==
    /\ dirExists = FALSE
    /\ files = NoFiles
    /\ alive = HostPids
    /\ now = 0
    /\ nops = 0
    /\ last = Idle
    /\ px = NoCall
    /\ inst = NoInstall
    /\ en = NoEnum

Next ==
    \/ MainRegister
    \/ CallRegister
    \/ MainDeregister
    \/ MainList
    \/ MainCheck
    \/ MainUnknown
    \/ Tick
    \/ Kill
    \/ ForeignWrite

Spec == Init /\ [][Next]_vars


\* ================================================================ claims
\* The process with id pid is running while process self enumerates.
Running(pid, self) == pid = self \/ pid \in alive
\* The last command was an enumeration that met no directory error.
Enumerated == last.cmd \in {"list", "check"} /\ ~last.fault
\* The startedAt of a record ("" when it has none).
StartedOf(c) == Get(c.data, "startedAt", EmptyStamp)
\* A file json.loads and strptime accept: a structured record.
Parses(c) == c.kind = "object" /\ StartedOf(c).fmt # "bad"
\* Hours since the record's UTC startedAt (0 without one).
AgeOf(c) == IF StartedOf(c).fmt = "iso" THEN now - StartedOf(c).wall ELSE 0
\* Live as the data model defines it: the pid is running and the age is
\* below the threshold.
Live(c, self) == Parses(c) /\ Running(Get(c.data, "pid", 0), self) /\ AgeOf(c) < STALE_HOURS

\* C1: register for a key that already has a record file leaves the directory
\* as it was: one file for the key, holding what the first call wrote, whatever
\* role the second call is given and whenever it runs.
C1_RegisterIdempotent ==
    (last.cmd = "register" /\ ~last.fault /\ last.key \in DOMAIN last.before)
        => /\ files = last.before
           /\ ~last.raised

\* C1 witness: a second register for the key of a record a session wrote, with
\* another role and at a later time.
C1_Witness ==
    /\ last.cmd = "register" /\ ~last.fault
    /\ last.key \in DOMAIN last.before
    /\ last.before[last.key].by = last.session
    /\ last.before[last.key].data.role # last.role
    /\ last.before[last.key].data.startedAt.wall < now
    /\ files[last.key] = last.before[last.key]

\* C2: list returns every record register wrote whose process is running and
\* whose age is below 4 hours, with the pid, cwd, role and sessionId written,
\* and leaves its file in place, whatever the timezone of the machine.
C2_RoundTripAnyTimezone ==
    Enumerated /\ last.cmd = "list" =>
        \A k \in DOMAIN last.before :
            (last.before[k].by # "" /\ Live(last.before[k], last.hook))
                => /\ k \in DOMAIN files
                   /\ files[k] = last.before[k]
                   /\ \E i \in 1..Len(last.sessions) :
                         /\ last.srcs[i] = k
                         /\ last.sessions[i].pid = last.before[k].data.pid
                         /\ last.sessions[i].cwd = last.before[k].data.cwd
                         /\ last.sessions[i].role = last.before[k].data.role
                         /\ last.sessions[i].sessionId = last.before[k].data.sessionId

\* C3: an enumeration that runs after the process of a record has terminated
\* leaves the record out of its result and removes the record's file.
C3_DeadPidEvicted ==
    Enumerated =>
        \A k \in DOMAIN last.before :
            (Parses(last.before[k]) /\ ~Running(Get(last.before[k].data, "pid", 0), last.hook))
                => /\ k \notin DOMAIN files
                   /\ \A i \in 1..Len(last.srcs) : last.srcs[i] # k

\* C3 witness: check after the host process of a registered session terminated
\* reports no session, and the file is gone.
C3_Witness ==
    /\ last.cmd = "check" /\ ~last.fault
    /\ \E k \in DOMAIN last.before :
          /\ last.before[k].by # ""
          /\ ~Running(last.before[k].data.pid, last.hook)
          /\ AgeOf(last.before[k]) < STALE_HOURS
          /\ k \notin DOMAIN files
    /\ last.total = 0 /\ last.orch = 0

\* C4: an enumeration leaves out and removes every record whose process is
\* running and whose startedAt is more than 4 hours back, whatever the timezone
\* of the machine.
C4_StaleEvictedAnyTimezone ==
    Enumerated =>
        \A k \in DOMAIN last.before :
            (/\ last.before[k].by # ""
             /\ Running(last.before[k].data.pid, last.hook)
             /\ AgeOf(last.before[k]) > STALE_HOURS)
                => /\ k \notin DOMAIN files
                   /\ \A i \in 1..Len(last.srcs) : last.srcs[i] # k

\* C5: after deregister the file of the caller's key does not exist, no
\* enumeration that follows returns a record of that key, nothing else in the
\* directory changed, and nothing was raised; when the key had no file, the
\* directory is as it was.
C5_DeregisterRemoves ==
    (last.cmd = "deregister" /\ ~last.fault)
        => /\ last.key \notin DOMAIN files
           /\ files = Remove(last.before, last.key)
           /\ (last.key \notin DOMAIN last.before => files = last.before)
           /\ ~last.raised /\ last.exit = 0
           /\ dirExists = last.dirBefore
           /\ \A h \in HookPids, tz \in TZOffsets, order \in Perms(DOMAIN files) :
                 LET r == active_sessions(dirExists, files, order, h, alive, now, tz)
                 IN \A i \in 1..Len(r.srcs) : r.srcs[i] # last.key

\* C5 witness: deregister removed the record its session had registered.
C5_Witness ==
    /\ last.cmd = "deregister" /\ ~last.fault
    /\ last.key \in DOMAIN last.before
    /\ last.before[last.key].by = last.session
    /\ last.key \notin DOMAIN files

\* A file that is no structured record: not JSON, JSON that is no object, or a
\* startedAt that strptime rejects.
Corrupt(c) == ~Parses(c)

\* C6: a file that is no structured record is never returned by an
\* enumeration, stays on disk as it was, and the enumeration still returns
\* every record it finds alive and fresh.
C6_CorruptSkipped ==
    Enumerated =>
        \A k \in DOMAIN last.before :
            /\ Corrupt(last.before[k])
                  => /\ \A i \in 1..Len(last.srcs) : last.srcs[i] # k
                     /\ k \in DOMAIN files
                     /\ files[k] = last.before[k]
            /\ (/\ ~Corrupt(last.before[k])
                /\ is_alive(Get(last.before[k].data, "pid", 0), last.hook, alive)
                /\ (IF StartedOf(last.before[k]).fmt = "iso"
                    THEN now - MkTimeLocal(StartedOf(last.before[k]), last.tz) ELSE 0) < STALE_HOURS)
                  => \E i \in 1..Len(last.srcs) :
                        last.srcs[i] = k /\ last.sessions[i] = last.before[k].data

\* C6 witness: an enumeration of a directory that holds a corrupt file and a
\* registered record returned the record and kept the corrupt file.
C6_Witness ==
    /\ Enumerated
    /\ \E k \in DOMAIN last.before : Corrupt(last.before[k]) /\ k \in DOMAIN files
    /\ \E i \in 1..Len(last.srcs) : last.before[last.srcs[i]].by # ""

\* C7: every invocation of the script exits with status 0, whatever was raised
\* inside the command.
C7_AlwaysSucceeds ==
    (last.cmd # "none" /\ last.via = "cli") => last.exit = 0

\* C7 witness: a command of the script raised (a directory that cannot be
\* read, a record without its role) and the script still exited with 0.
C7_Witness ==
    /\ last.cmd = "check" /\ last.via = "cli"
    /\ last.raised /\ ~last.fault
    /\ last.exit = 0

\* C8: deregister resolves the key (and tracking pid) under which its session
\* registered: every record the session wrote is the file deregister names.
C8_SameKeyEveryInvocation ==
    last.cmd = "deregister" =>
        \A k \in DOMAIN last.before :
            last.before[k].by = last.session
                => k = last.key /\ last.before[k].data.pid = last.tpid

\* C9: check prints the number of live records, the number of live
\* orchestrators, and one line per live session.
C9_CheckReportsLive ==
    (last.cmd = "check" /\ ~last.fault) =>
        LET live == {k \in DOMAIN last.before : Live(last.before[k], last.hook)}
        IN /\ last.printed
           /\ last.total = Cardinality(live)
           /\ last.orch = Cardinality({k \in live :
                             Get(last.before[k].data, "role", "") = "orchestrator"})
           /\ Len(last.lines) = Cardinality(live)

\* C10: registry.py register <role> writes a record with that role, and
\* registry.py register writes one with the role "orchestrator".
C10_RoleArgument ==
    (/\ last.cmd = "register" /\ last.via = "cli" /\ ~last.fault
     /\ last.key \notin DOMAIN last.before)
        => /\ last.key \in DOMAIN files
           /\ files[last.key].data.role = IF last.arg = NoArg THEN "orchestrator" ELSE last.arg

\* C12: an enumeration that finds no registry directory returns the empty
\* list and leaves the file system as it was: no directory and no file is
\* created.
C12_AbsentDirectoryUntouched ==
    (Enumerated /\ ~last.dirBefore)
        => /\ last.sessions = <<>>
           /\ last.total = 0
           /\ ~last.raised
           /\ ~dirExists
           /\ files = NoFiles

\* C12 witness: check ran before anything had created the directory, printed
\* its summary of 0 sessions, and there is still no directory.
C12_Witness ==
    /\ last.cmd = "check" /\ ~last.fault
    /\ ~last.dirBefore
    /\ last.printed /\ last.total = 0
    /\ ~dirExists

\* The age active_sessions computes for a record on a machine tz hours east
\* of UTC.
ComputedAge(c, tz) == IF StartedOf(c).fmt = "iso" THEN now - MkTimeLocal(StartedOf(c), tz) ELSE 0

\* C18: register creates at most the file of the key it resolved and changes
\* no file that exists; deregister removes at most the file of the key it
\* resolved; an enumeration creates nothing and changes no content, and every
\* file it removes held a record that it found dead or stale.
C18_OperationsKeepToTheirOwnFile ==
    /\ last.cmd = "register"
          => /\ \A k \in DOMAIN last.before : k \in DOMAIN files /\ files[k] = last.before[k]
             /\ DOMAIN files \subseteq (DOMAIN last.before) \cup {last.key}
    /\ last.cmd = "deregister"
          => /\ DOMAIN files \subseteq DOMAIN last.before
             /\ (DOMAIN last.before) \ {last.key} \subseteq DOMAIN files
             /\ \A k \in DOMAIN files : files[k] = last.before[k]
             /\ dirExists = last.dirBefore
    /\ last.cmd \in {"list", "check"}
          => /\ DOMAIN files \subseteq DOMAIN last.before
             /\ \A k \in DOMAIN files : files[k] = last.before[k]
             /\ dirExists = last.dirBefore
             /\ \A k \in (DOMAIN last.before) \ DOMAIN files :
                   /\ Parses(last.before[k])
                   /\ \/ ~is_alive(Get(last.before[k].data, "pid", 0), last.hook, alive)
                      \/ ComputedAge(last.before[k], last.tz) >= STALE_HOURS

\* C18 witness: an enumeration removed the record of a session whose process
\* had terminated and left the other file of the directory, which is no
\* record, as it was.
C18_Witness ==
    /\ Enumerated
    /\ \E k \in (DOMAIN last.before) \ DOMAIN files :
          last.before[k].by # "" /\ ~Running(last.before[k].data.pid, last.hook)
    /\ \E k \in DOMAIN files : Corrupt(files[k]) /\ files[k] = last.before[k]

\* ============================================== the liveness check, alone
\* The registry as it is before any command ran.
RegistryAtRest ==
    /\ dirExists = FALSE
    /\ files = NoFiles
    /\ alive = HostPids
    /\ now = 0
    /\ nops = 0
    /\ last = Idle

\* The process ids is_alive is asked about: none, process 0, process 1 (init,
\* which belongs to root), a process of another session, the host processes.
ProbePids == {-1, 0, 1, 2, 30, 40}

\* A call of is_alive(pid) by process self while `running` are running.
AliveInit ==
    /\ RegistryAtRest
    /\ inst = NoInstall
    /\ en = NoEnum
    /\ \E pid \in ProbePids, self \in HookPids, running \in SUBSET (HostPids \cup {2}) :
          px = [fn |-> "is_alive", pid |-> pid, self |-> self, running |-> running,
                done |-> FALSE, result |-> FALSE]

AliveCall ==
    /\ px.fn = "is_alive"
    /\ ~px.done
    /\ px' = [px EXCEPT !.done = TRUE, !.result = is_alive(px.pid, px.self, px.running)]
    /\ UNCHANGED <<dirExists, files, alive, now, nops, last, inst, en>>

AliveNext == AliveCall

SpecAlive == AliveInit /\ [][AliveNext]_vars

\* C11: is_alive never reports an id <= 0 as alive, and reports a positive id
\* as alive when the probe is accepted and when it is denied for lack of
\* permission; only "no such process" makes it report not alive.
C11_DeniedCountsAsAlive ==
    (px.fn = "is_alive" /\ px.done)
        => /\ px.pid <= 0 => ~px.result
           /\ px.pid > 0 => (px.result <=> Probe(px.pid, px.self, px.running) # "nosuch")

\* ================================================== the installer, alone
\* At most MaxRuns runs of install.py happen in one behaviour.
MaxRuns == 2

\* The files install.py copies (the first two of its five), by their path in
\* the repository.
FILES_TO_COPY == <<"registry.py", "rules/coordination.md">>
CopiedFiles == {FILES_TO_COPY[i] : i \in 1..Len(FILES_TO_COPY)}
\* The events HOOKS_TO_ADD has a hook for, and the command of each.
HookEvents == {"SessionStart", "Stop", "SessionEnd"}
RegisterCommand == "py ~/.claude/registry.py register"
DeregisterCommand == "py ~/.claude/registry.py deregister"
OurCommand(event) == IF event = "SessionStart" THEN RegisterCommand ELSE DeregisterCommand
\* A hook group {"hooks": [{"type": "command", "command": c}, ...]} is the
\* sequence of the commands of its hooks; HOOKS_TO_ADD holds one group of one
\* hook for each event.
HOOKS_TO_ADD == [event \in HookEvents |-> << <<OurCommand(event)>> >>]
TeamsFlag == "CLAUDE_CODE_EXPERIMENTAL_AGENT_TEAMS"
ENV_TO_ADD == (TeamsFlag :> "true")
\* A hook command and an environment entry of the user.
UserCommand == "echo hi"
UserEnv == "FOO"

\* A JSON object without members.
EmptyObject == [k \in {} |-> ""]
\* settings.json: missing, not valid JSON, or an object with the user's own
\* key "model" and, when hasEnv / hasHooks, the members "env" and "hooks".
NoSettings ==
    [kind |-> "absent", model |-> "", hasEnv |-> FALSE, env |-> EmptyObject,
     hasHooks |-> FALSE, hooks |-> EmptyObject]
InvalidSettings == [NoSettings EXCEPT !.kind = "invalid"]
EmptySettings == [NoSettings EXCEPT !.kind = "object"]

\* any(h.get("hooks", [{}])[0].get("command", "") == our_command
\*     for h in existing), from group i on: "yes", "no", or "raise" for the
\* IndexError at a group whose hooks list is empty.
RECURSIVE AnyFirstCommand(_, _, _)
AnyFirstCommand(existing, i, our_command) ==
    IF i > Len(existing) THEN "no"
    ELSE IF existing[i] = <<>> THEN "raise"
    ELSE IF existing[i][1] = our_command THEN "yes"
    ELSE AnyFirstCommand(existing, i + 1, our_command)

\* [h for h in groups if h.get("hooks", [{}])[0].get("command", "") != our_command]
RECURSIVE WithoutFirstCommand(_, _, _)
WithoutFirstCommand(groups, i, our_command) ==
    IF i > Len(groups) THEN <<>>
    ELSE (IF groups[i][1] # our_command THEN <<groups[i]>> ELSE <<>>)
             \o WithoutFirstCommand(groups, i + 1, our_command)

\* What a run printed about settings.json and how it ended.
NoOutput ==
    [added |-> {}, removed |-> {}, updated |-> FALSE, uptodate |-> FALSE,
     error |-> FALSE, crashed |-> FALSE]

\* copy_files: the installed files and their backups afterwards.
copy_files(src, dst, bak, dry_run) ==
    [dst |-> [f \in CopiedFiles |-> IF f \in src /\ ~dry_run THEN "repo" ELSE dst[f]],
     bak |-> [f \in CopiedFiles |->
                 IF f \in src /\ ~dry_run /\ dst[f] # "absent" THEN dst[f] ELSE bak[f]]]

\* create_active_dir: ~/.claude/active exists afterwards.
create_active_dir(active, dry_run) == active \/ ~dry_run

\* patch_settings whose write is not held back by --dry-run.
patch_settings_writes(settings, backup, dry_run) ==
    LET base == IF settings.kind = "absent" THEN EmptySettings ELSE settings
        present == [e \in HookEvents |-> AnyFirstCommand(Get(base.hooks, e, <<>>), 1, OurCommand(e))]
        added == {e \in HookEvents : present[e] = "no"}
        envChanged == Get(base.env, TeamsFlag, "") # ENV_TO_ADD[TeamsFlag]
        changed == envChanged \/ added # {}
        patched == [base EXCEPT
                       !.hasEnv = TRUE,
                       !.env = Put(base.env, TeamsFlag, ENV_TO_ADD[TeamsFlag]),
                       !.hasHooks = TRUE,
                       !.hooks = [e \in (DOMAIN base.hooks) \cup added |->
                                     IF e \in added
                                     THEN Get(base.hooks, e, <<>>) \o HOOKS_TO_ADD[e]
                                     ELSE base.hooks[e]]]
    IN IF settings.kind = "invalid"
       THEN [settings |-> settings, backup |-> backup, out |-> [NoOutput EXCEPT !.error = TRUE]]
       ELSE IF \E e \in HookEvents : present[e] = "raise"
       THEN [settings |-> settings, backup |-> backup, out |-> [NoOutput EXCEPT !.crashed = TRUE]]
       ELSE IF changed
       THEN [settings |-> patched,
             backup |-> IF settings.kind # "absent" THEN settings ELSE backup,
             out |-> [NoOutput EXCEPT !.added = added, !.updated = TRUE]]
       ELSE [settings |-> settings, backup |-> backup,
             out |-> [NoOutput EXCEPT !.added = added, !.uptodate = ~changed]]

\* patch_settings: settings.json and settings.json.bak afterwards, and what
\* was printed.
patch_settings(settings, backup, dry_run) ==
    LET base == IF settings.kind = "absent" THEN EmptySettings ELSE settings
        present == [e \in HookEvents |-> AnyFirstCommand(Get(base.hooks, e, <<>>), 1, OurCommand(e))]
        added == {e \in HookEvents : present[e] = "no"}
        envChanged == Get(base.env, TeamsFlag, "") # ENV_TO_ADD[TeamsFlag]
        changed == envChanged \/ added # {}
        patched == [base EXCEPT
                       !.hasEnv = TRUE,
                       !.env = Put(base.env, TeamsFlag, ENV_TO_ADD[TeamsFlag]),
                       !.hasHooks = TRUE,
                       !.hooks = [e \in (DOMAIN base.hooks) \cup added |->
                                     IF e \in added
                                     THEN Get(base.hooks, e, <<>>) \o HOOKS_TO_ADD[e]
                                     ELSE base.hooks[e]]]
    IN IF settings.kind = "invalid"
       THEN [settings |-> settings, backup |-> backup, out |-> [NoOutput EXCEPT !.error = TRUE]]
       ELSE IF \E e \in HookEvents : present[e] = "raise"
       THEN [settings |-> settings, backup |-> backup, out |-> [NoOutput EXCEPT !.crashed = TRUE]]
       ELSE IF changed /\ ~dry_run
       THEN [settings |-> patched,
             backup |-> IF settings.kind # "absent" THEN settings ELSE backup,
             out |-> [NoOutput EXCEPT !.added = added, !.updated = TRUE]]
       ELSE [settings |-> settings, backup |-> backup,
             out |-> [NoOutput EXCEPT !.added = added, !.uptodate = ~changed]]

\* The settings part of uninstall: settings.json afterwards and what was
\* printed.
unpatch_settings(settings, dry_run) ==
    LET events == IF settings.hasHooks THEN HookEvents \cap DOMAIN settings.hooks ELSE {}
        raises == \E e \in events : \E i \in 1..Len(settings.hooks[e]) : settings.hooks[e][i] = <<>>
        filtered == [e \in DOMAIN settings.hooks |->
                        IF e \in events
                        THEN WithoutFirstCommand(settings.hooks[e], 1, OurCommand(e))
                        ELSE settings.hooks[e]]
        removed == {e \in events : Len(filtered[e]) < Len(settings.hooks[e])}
        envChanged == settings.hasEnv /\ TeamsFlag \in DOMAIN settings.env
        changed == removed # {} \/ envChanged
        cleaned == [settings EXCEPT
                       !.hooks = filtered,
                       !.env = [k \in (DOMAIN settings.env) \ DOMAIN ENV_TO_ADD |-> settings.env[k]]]
    IN IF settings.kind # "object"
       THEN [settings |-> settings, out |-> NoOutput]
       ELSE IF raises
       THEN [settings |-> settings, out |-> [NoOutput EXCEPT !.crashed = TRUE]]
       ELSE IF changed /\ ~dry_run
       THEN [settings |-> cleaned, out |-> [NoOutput EXCEPT !.removed = removed, !.updated = TRUE]]
       ELSE [settings |-> settings, out |-> [NoOutput EXCEPT !.removed = removed]]

\* What install.py finds and leaves on disk.
Disk(i) ==
    [dst |-> i.dst, bak |-> i.bak, active |-> i.active,
     settings |-> i.settings, settingsBak |-> i.settingsBak]

\* install(dry_run): copy_files, create_active_dir, patch_settings.
install(i, dry_run) ==
    LET c == copy_files(i.src, i.dst, i.bak, dry_run)
        p == patch_settings(i.settings, i.settingsBak, dry_run)
    IN [i EXCEPT !.run = "install", !.dry = dry_run, !.runs = @ + 1,
                 !.again = i.run = "install" /\ ~i.dry,
                 !.before = Disk(i),
                 !.dst = c.dst, !.bak = c.bak,
                 !.active = create_active_dir(i.active, dry_run),
                 !.settings = p.settings, !.settingsBak = p.backup,
                 !.out = p.out]

\* uninstall(dry_run): the installed files are removed, then the hooks and
\* the flag are taken out of settings.json.
uninstall(i, dry_run) ==
    LET u == unpatch_settings(i.settings, dry_run)
    IN [i EXCEPT !.run = "uninstall", !.dry = dry_run, !.runs = @ + 1,
                 !.again = FALSE,
                 !.before = Disk(i),
                 !.dst = [f \in CopiedFiles |-> IF dry_run THEN i.dst[f] ELSE "absent"],
                 !.settings = u.settings,
                 !.out = u.out]

\* The hooks of an event in the settings the user starts with: none, a group
\* of the user's, a group of the user's that runs the registry command second,
\* a group whose list of hooks is empty.
UserHooks ==
    UNION {[E -> {"one", "two", "empty"}] : E \in SUBSET HookEvents}
HooksOf(shape) ==
    [e \in DOMAIN shape |->
        CASE shape[e] = "one" -> << <<UserCommand>> >>
          [] shape[e] = "two" -> << <<UserCommand, OurCommand(e)>> >>
          [] OTHER -> << <<>> >>]
UserEnvs == {EmptyObject, (UserEnv :> "1"), (UserEnv :> "1") @@ (TeamsFlag :> "false")}

InstallInit ==
    /\ RegistryAtRest
    /\ px = NoCall
    /\ en = NoEnum
    /\ \E src \in {CopiedFiles, {FILES_TO_COPY[1]}},
          old \in SUBSET CopiedFiles,
          active \in BOOLEAN,
          kind \in {"absent", "invalid", "object"},
          shape \in UserHooks,
          env \in UserEnvs :
          /\ kind # "object" => shape = EmptyObject /\ env = EmptyObject
          /\ inst = [run |-> "none", dry |-> FALSE, runs |-> 0, again |-> FALSE,
                     src |-> src,
                     dst |-> [f \in CopiedFiles |-> IF f \in old THEN "user" ELSE "absent"],
                     bak |-> [f \in CopiedFiles |-> "absent"],
                     active |-> active,
                     settings |->
                         IF kind = "object"
                         THEN [kind |-> "object", model |-> "opus",
                               hasEnv |-> env # EmptyObject, env |-> env,
                               hasHooks |-> shape # EmptyObject, hooks |-> HooksOf(shape)]
                         ELSE IF kind = "invalid" THEN InvalidSettings ELSE NoSettings,
                     settingsBak |-> NoSettings,
                     out |-> NoOutput,
                     before |-> [dst |-> [f \in CopiedFiles |-> "absent"],
                                 bak |-> [f \in CopiedFiles |-> "absent"],
                                 active |-> FALSE,
                                 settings |-> NoSettings, settingsBak |-> NoSettings]]

\* python install.py [--dry-run]
RunInstall ==
    \E dry_run \in BOOLEAN :
        /\ inst.runs < MaxRuns
        /\ inst' = install(inst, dry_run)
        /\ UNCHANGED <<dirExists, files, alive, now, nops, last, px, en>>

\* python install.py --uninstall [--dry-run]
RunUninstall ==
    \E dry_run \in BOOLEAN :
        /\ inst.runs < MaxRuns
        /\ inst' = uninstall(inst, dry_run)
        /\ UNCHANGED <<dirExists, files, alive, now, nops, last, px, en>>

InstallNext ==
    \/ RunInstall
    \/ RunUninstall

SpecInstall == InstallInit /\ [][InstallNext]_vars

\* How often command c is the command of a hook of the groups of an event.
RECURSIVE Occurrences(_, _, _)
Occurrences(groups, i, c) ==
    IF i > Len(groups) THEN 0
    ELSE Cardinality({j \in 1..Len(groups[i]) : groups[i][j] = c}) + Occurrences(groups, i + 1, c)

\* C13: after a run of install.py on a settings.json that is missing or valid,
\* each of SessionStart, Stop and SessionEnd holds the registry hook command
\* exactly once, the hooks and keys the user had are still there, and a run
\* that follows an install reports "already up to date" and leaves
\* settings.json and its backup as they were.
C13_InstallMergesOnce ==
    (inst.run = "install" /\ ~inst.dry /\ inst.before.settings.kind # "invalid")
        => /\ inst.settings.kind = "object"
           /\ \A e \in HookEvents :
                 /\ e \in DOMAIN inst.settings.hooks
                 /\ Occurrences(inst.settings.hooks[e], 1, OurCommand(e)) = 1
           /\ \A e \in DOMAIN inst.before.settings.hooks :
                 /\ e \in DOMAIN inst.settings.hooks
                 /\ Len(inst.settings.hooks[e]) >= Len(inst.before.settings.hooks[e])
                 /\ SubSeq(inst.settings.hooks[e], 1, Len(inst.before.settings.hooks[e]))
                       = inst.before.settings.hooks[e]
           /\ inst.settings.model = IF inst.before.settings.kind = "object" THEN inst.before.settings.model ELSE ""
           /\ \A k \in (DOMAIN inst.before.settings.env) \ DOMAIN ENV_TO_ADD :
                 k \in DOMAIN inst.settings.env /\ inst.settings.env[k] = inst.before.settings.env[k]
           /\ inst.again => /\ inst.out.uptodate
                            /\ inst.settings = inst.before.settings
                            /\ inst.settingsBak = inst.before.settingsBak

\* C14: a run of install.py with --dry-run, installing or uninstalling, leaves
\* every file and directory as it found it.
C14_DryRunWritesNothing ==
    (inst.run # "none" /\ inst.dry) => Disk(inst) = inst.before

\* C14 witness: a dry run of the installer in a home that had nothing of
\* slimductor reported the three hooks it would add, and wrote nothing; the
\* files, the directory and settings.json are still missing.
C14_Witness ==
    /\ inst.run = "install" /\ inst.dry
    /\ inst.out.added = HookEvents
    /\ inst.settings.kind = "absent"
    /\ ~inst.active
    /\ \A f \in CopiedFiles : inst.dst[f] = "absent"

\* ============================================ get_tracking_pid, by itself
\* The process that calls get_tracking_pid, and the processes a snapshot can
\* name as its ancestors.
WalkSelf == 9
WalkPids == {2, 3}
\* The executable names of a snapshot: the host application, a launcher of
\* the skip list, another program.
WalkNames == {"claude.exe", "bash.exe", "node.exe"}
\* What a snapshot can hold about a process: no entry, or its parent id and
\* name.  The calling process is python.exe.
NoEntry == [parent |-> -1, name |-> ""]
WalkEntries(p) ==
    {NoEntry} \cup
    [parent : {0, 1, WalkSelf} \cup WalkPids,
     name : IF p = WalkSelf THEN {"python.exe"} ELSE WalkNames]
\* pid_map and name_map of _win_process_snapshot, which have the same keys.
SnapshotPidMap(snap) == [p \in {q \in DOMAIN snap : snap[q] # NoEntry} |-> snap[p].parent]
SnapshotNameMap(snap) == [p \in {q \in DOMAIN snap : snap[q] # NoEntry} |-> snap[p].name]

\* The loop of get_tracking_pid without its cap of 15 hops.
WalkHop_uncapped(cur, last_alive, hops, pid_map, name_map, self, running) ==
    LET parent == Get(pid_map, cur, 0)
        pname == Get(name_map, parent, "")
        stop == [op |-> "return", value |-> last_alive, cur |-> cur, last_alive |-> last_alive]
    IN IF parent <= 1 \/ parent = cur THEN stop
       ELSE IF pname \in _CLAUDE_EXES THEN [stop EXCEPT !.value = parent]
       ELSE IF is_alive(parent, self, running)
            THEN IF pname \notin _SKIP_EXES
                 THEN [stop EXCEPT !.value = parent, !.last_alive = parent]
                 ELSE [op |-> "continue", value |-> 0, cur |-> parent, last_alive |-> parent]
            ELSE [op |-> "continue", value |-> 0, cur |-> parent, last_alive |-> last_alive]

\* The loop of get_tracking_pid without its skip list: the first ancestor
\* that is alive ends the walk.
WalkHop_noSkipList(cur, last_alive, hops, pid_map, name_map, self, running) ==
    LET parent == Get(pid_map, cur, 0)
        pname == Get(name_map, parent, "")
        stop == [op |-> "return", value |-> last_alive, cur |-> cur, last_alive |-> last_alive]
    IN IF hops >= WalkCap THEN stop
       ELSE IF parent <= 1 \/ parent = cur THEN stop
       ELSE IF pname \in _CLAUDE_EXES THEN [stop EXCEPT !.value = parent]
       ELSE IF is_alive(parent, self, running)
            THEN [stop EXCEPT !.value = parent, !.last_alive = parent]
            ELSE [op |-> "continue", value |-> 0, cur |-> parent, last_alive |-> last_alive]

\* One pass through the loop of get_tracking_pid at process cur, after `hops`
\* passes: the function returns `value` (directly, after a break, or because
\* range(15) is used up), or the loop goes on at the parent.
WalkHop(cur, last_alive, hops, pid_map, name_map, self, running) ==
    LET parent == Get(pid_map, cur, 0)
        pname == Get(name_map, parent, "")
        stop == [op |-> "return", value |-> last_alive, cur |-> cur, last_alive |-> last_alive]
    IN IF hops >= WalkCap THEN stop
       ELSE IF parent <= 1 \/ parent = cur THEN stop
       ELSE IF pname \in _CLAUDE_EXES THEN [stop EXCEPT !.value = parent]
       ELSE IF is_alive(parent, self, running)
            THEN IF pname \notin _SKIP_EXES
                 THEN [stop EXCEPT !.value = parent, !.last_alive = parent]
                 ELSE [op |-> "continue", value |-> 0, cur |-> parent, last_alive |-> parent]
            ELSE [op |-> "continue", value |-> 0, cur |-> parent, last_alive |-> last_alive]

\* A call of get_tracking_pid by process WalkSelf: on Windows with a snapshot
\* of the process table, on Windows when taking the snapshot raises, or on
\* POSIX (where no snapshot is taken).  os.getppid() is the parent the
\* snapshot names for the caller, and 2 when the snapshot has no entry for it.
WalkInit ==
    /\ RegistryAtRest
    /\ inst = NoInstall
    /\ en = NoEnum
    /\ \E variant \in {"win32", "win32-raises", "posix"},
          snap \in [{WalkSelf} \cup WalkPids -> UNION {WalkEntries(p) : p \in {WalkSelf} \cup WalkPids}],
          ppid \in {0, 1, 2},
          running \in SUBSET WalkPids :
          /\ \A p \in DOMAIN snap : snap[p] \in WalkEntries(p)
          /\ variant = "win32" => ppid = 2
          /\ variant # "win32" => \A p \in DOMAIN snap : snap[p] = NoEntry
          /\ px = [fn |-> "get_tracking_pid",
                   platform |-> IF variant = "posix" THEN "posix" ELSE "win32",
                   snapfails |-> variant = "win32-raises",
                   pid |-> WalkSelf,
                   ppid |-> IF variant = "win32" /\ snap[WalkSelf] # NoEntry
                            THEN snap[WalkSelf].parent ELSE ppid,
                   pid_map |-> SnapshotPidMap(snap),
                   name_map |-> SnapshotNameMap(snap),
                   running |-> running,
                   pc |-> "call", cur |-> 0, last_alive |-> 0, hops |-> 0, result |-> 0]

\* get_tracking_pid up to its loop: the parent rule off Windows and when the
\* snapshot raises, else the start of the walk at the own process.
WalkEnter ==
    /\ px.fn = "get_tracking_pid"
    /\ px.pc = "call"
    /\ px' = IF px.platform # "win32" \/ px.snapfails
             THEN [px EXCEPT !.pc = "done", !.result = ParentRule(px.pid, px.ppid)]
             ELSE [px EXCEPT !.pc = "loop", !.cur = px.pid, !.last_alive = px.pid]
    /\ UNCHANGED <<dirExists, files, alive, now, nops, last, inst, en>>

\* One pass through the loop, or the return after it.
WalkStep ==
    /\ px.fn = "get_tracking_pid"
    /\ px.pc = "loop"
    /\ LET h == WalkHop(px.cur, px.last_alive, px.hops, px.pid_map, px.name_map,
                        px.pid, px.running)
       IN px' = IF h.op = "return"
                THEN [px EXCEPT !.pc = "done", !.result = h.value,
                                !.last_alive = h.last_alive,
                                !.hops = IF px.hops >= WalkCap THEN @ ELSE @ + 1]
                ELSE [px EXCEPT !.cur = h.cur, !.last_alive = h.last_alive, !.hops = @ + 1]
    /\ UNCHANGED <<dirExists, files, alive, now, nops, last, inst, en>>

WalkNext ==
    \/ WalkEnter
    \/ WalkStep

SpecWalk == WalkInit /\ [][WalkNext]_vars

\* The call has returned from a walk over a snapshot.
Walked == px.fn = "get_tracking_pid" /\ px.pc = "done" /\ px.platform = "win32" /\ ~px.snapfails

\* The ancestors of process cur the snapshot names, nearest first: each one's
\* parent in turn, up to a parent id <= 1, a process that is its own parent,
\* or n of them.
RECURSIVE AncestorChain(_, _, _)
AncestorChain(cur, n, pid_map) ==
    LET parent == Get(pid_map, cur, 0)
    IN IF n = 0 \/ parent <= 1 \/ parent = cur THEN <<>>
       ELSE <<parent>> \o AncestorChain(parent, n - 1, pid_map)

\* The ancestors of the calling process within the cap.
Ancestors == AncestorChain(px.pid, WalkCap, px.pid_map)
\* Ancestor a is named as the host application / confirmed alive.
IsHost(a) == Get(px.name_map, a, "") \in _CLAUDE_EXES
ConfirmedAlive(a) == a = px.pid \/ a \in px.running
\* Ancestor a ends the walk with a confident match.
Confident(a) == IsHost(a) \/ (ConfirmedAlive(a) /\ Get(px.name_map, a, "") \notin _SKIP_EXES)

\* The stepwise loop and the operator Walk return the same process id.
WalkAgrees ==
    (px.fn = "get_tracking_pid" /\ px.pc = "done")
        => px.result = get_tracking_pid(px.platform, px.pid, px.ppid, px.pid_map,
                                        px.name_map, px.running, px.snapfails)

\* C15: a walk that ends without a confident match returns the last ancestor
\* it confirmed alive, and when it confirmed none alive it returns what the
\* parent rule gives: the parent id if it is above 1, else the own id.
C15_NoMatchFallsBackToParentRule ==
    (Walked /\ \A i \in 1..Len(Ancestors) : ~Confident(Ancestors[i]))
        => LET confirmed == {i \in 1..Len(Ancestors) : ConfirmedAlive(Ancestors[i])}
           IN IF confirmed # {}
              THEN px.result = Ancestors[CHOOSE i \in confirmed : \A j \in confirmed : j <= i]
              ELSE px.result = ParentRule(px.pid, px.ppid)

\* C16: when an ancestor is named as the host application, or is confirmed
\* alive and not in the skip list, the walk returns the nearest such ancestor:
\* a named host without a liveness check, and passing over the nearer
\* ancestors that are in the skip list or are not alive.
C16_NearestConfidentAncestor ==
    Walked =>
        \A i \in 1..Len(Ancestors) :
            (Confident(Ancestors[i]) /\ \A j \in 1..(i - 1) : ~Confident(Ancestors[j]))
                => px.result = Ancestors[i]

\* C16 witness: the walk passed over a launcher that is running and returned
\* the host application behind it, which is not confirmed alive.
C16_Witness ==
    /\ Walked
    /\ Len(Ancestors) >= 2
    /\ Get(px.name_map, Ancestors[1], "") \in _SKIP_EXES
    /\ ConfirmedAlive(Ancestors[1])
    /\ IsHost(Ancestors[2]) /\ ~ConfirmedAlive(Ancestors[2])
    /\ px.result = Ancestors[2]

\* C17: whatever the snapshot holds (cycles, processes that are their own
\* parent, missing entries, parent ids <= 1), the walk makes at most 15 passes
\* through its loop, always has a next step until it returns, and returns the
\* calling process or one of its ancestors in the snapshot; when the snapshot
\* cannot be taken the call returns what the parent rule gives.
C17_WalkBoundedAndClosed ==
    px.fn = "get_tracking_pid" =>
        /\ px.hops <= WalkCap
        /\ px.pc # "done" => ENABLED WalkNext
        /\ Walked => \/ px.result = px.pid
                     \/ \E i \in 1..Len(Ancestors) : px.result = Ancestors[i]
        /\ (px.pc = "done" /\ px.snapfails) => px.result \in {px.pid, px.ppid}

\* C17 witness: a snapshot in which two launchers are each other's parent;
\* the walk went round until its cap and returned.
C17_Witness ==
    /\ Walked
    /\ px.hops = WalkCap
    /\ Len(Ancestors) = WalkCap
    /\ \E i \in 1..Len(Ancestors) : px.result = Ancestors[i]

\* ================================== an enumeration among other processes
\* At most MaxRaceOps register and deregister calls of other processes happen
\* in one behaviour.
MaxRaceOps == 3
\* The process ids of the hooks of the sessions and of the enumerating
\* process.
RaceHook == 7
EnumHook == 8

\* What f.read_text() gives for a file that is gone: FileNotFoundError.
Nothing == [kind |-> "none", data |-> NoFiles, by |-> ""]
read_text(fs, k) == IF k \in DOMAIN fs THEN fs[k] ELSE Nothing

\* f.unlink(missing_ok): the directory afterwards and what was raised.
unlink(fs, k, missing_ok) ==
    IF k \in DOMAIN fs THEN [fs |-> Remove(fs, k), exc |-> ""]
    ELSE [fs |-> fs, exc |-> IF missing_ok THEN "" ELSE "FileNotFoundError"]

\* A handler of the loop that lets a vanished file through to the caller.
Caught_notFileErrors(exc) == exc # "FileNotFoundError"

\* `except Exception: pass` around the body of the loop of active_sessions:
\* every exception raised for a file ends the work on that file only.
Caught(exc) == TRUE

\* The enumeration before it started.
EnumIdle ==
    [pc |-> "idle", tz |-> 0, listing |-> <<>>, i |-> 0, held |-> Nothing,
     sessions |-> <<>>, srcs |-> <<>>,
     touched |-> {}, missing |-> {}, noops |-> {}, lost |-> {}]

\* The enumeration after the work on file i of its listing.
Advance(e) ==
    [e EXCEPT !.i = @ + 1, !.held = Nothing,
              !.pc = IF e.i + 1 > Len(e.listing) THEN "done" ELSE "next"]

\* The enumeration is between its listing of the directory and its return.
Enumerating == en.pc \in {"next", "act"}
\* What the enumeration knows of the directory is what it listed: the keys
\* other processes write or remove from then on are noted in touched.
Touch(key) == IF en.pc = "idle" THEN en ELSE [en EXCEPT !.touched = @ \cup {key}]

RaceInit ==
    /\ RegistryAtRest
    /\ px = NoCall
    /\ inst = NoInstall
    /\ en = EnumIdle

\* A hook of session s registers (the file does not exist yet).
RaceRegister ==
    \E s \in Sessions :
        LET tp == TrackingPid(s, RaceHook, alive, FALSE)
            key == session_file(EnvSid(s), tp)
        IN /\ nops < MaxRaceOps
           /\ CanRun(s, alive)
           /\ key \notin DOMAIN files
           /\ nops' = nops + 1
           /\ dirExists' = TRUE
           /\ files' = register(files, key, tp, now, EnvSid(s), Cwd(s), DefaultRole, s)
           /\ en' = Touch(key)
           /\ UNCHANGED <<alive, now, last, px, inst>>

\* A hook of session s deregisters (the file exists).
RaceDeregister ==
    \E s \in Sessions :
        LET tp == TrackingPid(s, RaceHook, alive, FALSE)
            key == session_file(EnvSid(s), tp)
        IN /\ nops < MaxRaceOps
           /\ CanRun(s, alive)
           /\ key \in DOMAIN files
           /\ nops' = nops + 1
           /\ files' = deregister(files, key)
           /\ en' = Touch(key)
           /\ UNCHANGED <<dirExists, alive, now, last, px, inst>>

\* Time passes and host processes terminate before the enumeration starts: an
\* enumeration takes a moment, the clock counts hours.
RaceTick ==
    /\ en.pc = "idle"
    /\ \E k \in DOMAIN files : files[k].kind = "object"
    /\ now < MaxTicks * TickHours
    /\ now' = now + TickHours
    /\ UNCHANGED <<dirExists, files, alive, nops, last, px, inst, en>>

RaceKill ==
    \E p \in alive :
        /\ en.pc = "idle"
        /\ alive' = alive \ {p}
        /\ UNCHANGED <<dirExists, files, now, nops, last, px, inst, en>>

\* active_sessions up to its loop: without a directory it returns [], else
\* glob lists the files that exist now.
EnumStart ==
    \E tz \in TZOffsets, order \in Perms(DOMAIN files) :
        /\ en.pc = "idle"
        /\ en' = IF ~dirExists \/ order = <<>>
                 THEN [en EXCEPT !.pc = "done", !.tz = tz]
                 ELSE [en EXCEPT !.pc = "next", !.tz = tz, !.listing = order, !.i = 1]
        /\ UNCHANGED <<dirExists, files, alive, now, nops, last, px, inst>>

\* f.read_text() of the next file of the listing.
EnumRead ==
    LET k == en.listing[en.i]
        c == read_text(files, k)
    IN /\ en.pc = "next"
       /\ en' = IF c.kind # "none" THEN [en EXCEPT !.pc = "act", !.held = c]
                ELSE IF Caught("FileNotFoundError")
                THEN [Advance(en) EXCEPT !.missing = @ \cup {k}]
                ELSE [en EXCEPT !.pc = "raised"]
       /\ UNCHANGED <<dirExists, files, alive, now, nops, last, px, inst>>

\* The rest of the loop body for the file read: parse, test, then append or
\* unlink.  lost: the files removed while they held a record that this test
\* accepts; noops: the files that were gone when unlink ran.
EnumAct ==
    LET k == en.listing[en.i]
        v == Verdict(en.held, EnumHook, alive, now, en.tz)
        u == unlink(files, k, TRUE)
    IN /\ en.pc = "act"
       /\ files' = IF v = "unlink" THEN u.fs ELSE files
       /\ en' = CASE v = "append" ->
                       [Advance(en) EXCEPT !.sessions = Append(@, en.held.data),
                                           !.srcs = Append(@, k)]
                  [] v = "unlink" /\ u.exc # "" /\ ~Caught(u.exc) ->
                       [en EXCEPT !.pc = "raised"]
                  [] v = "unlink" /\ k \notin DOMAIN files ->
                       [Advance(en) EXCEPT !.noops = @ \cup {k}]
                  [] v = "unlink" /\ Verdict(files[k], EnumHook, alive, now, en.tz) = "append" ->
                       [Advance(en) EXCEPT !.lost = @ \cup {k}]
                  [] OTHER -> Advance(en)
       /\ UNCHANGED <<dirExists, alive, now, nops, last, px, inst>>

RaceNext ==
    \/ RaceRegister
    \/ RaceDeregister
    \/ RaceTick
    \/ RaceKill
    \/ EnumStart
    \/ EnumRead
    \/ EnumAct

SpecRace == RaceInit /\ [][RaceNext]_vars

\* C19: whatever other sessions deregister while one process enumerates, a
\* file that is gone when it is read or when it is unlinked raises nothing to
\* the caller: the enumeration always has a next step until it returns, and
\* it returns every record of its listing that no other process touched and
\* that passes its test.
C19_VanishedFilesAreNoError ==
    /\ en.pc # "raised"
    /\ Enumerating => ENABLED (EnumRead \/ EnumAct)
    /\ en.pc = "done"
          => \A i \in 1..Len(en.listing) :
                LET k == en.listing[i]
                IN (/\ k \notin en.touched
                    /\ k \in DOMAIN files
                    /\ Verdict(files[k], EnumHook, alive, now, en.tz) = "append")
                      => \E j \in 1..Len(en.srcs) :
                            en.srcs[j] = k /\ en.sessions[j] = files[k].data

\* C19 witness: the enumeration read a stale record, the record's session
\* deregistered it before the unlink, the unlink found nothing and did
\* nothing, and the enumeration returned with the record of the other session.
C19_Witness ==
    /\ en.pc = "done"
    /\ en.noops # {}
    /\ \E j \in 1..Len(en.srcs) : en.srcs[j] \notin en.noops /\ en.srcs[j] \in DOMAIN files

\* C20: the enumeration removes a file only if the content the file holds at
\* the moment of the unlink is dead or stale: it never removes a record that
\* passes its own test at that moment.
C20_DeletesOnlyWhatIsDeadNow ==
    en.pc \in {"next", "act", "done"} => en.lost = {}

====
